---- MODULE Spec2Model ----
(***************************************************************************)
(* fastapi_range_response: HTTP Range request handling                     *)
(* (BaseRangeResponse / FileRangeResponse).                                *)
(*                                                                         *)
(* Text (str) and bytes are sequences of one-character strings; latin-1    *)
(* and utf-8 encoding of the ASCII text used here keeps one element per    *)
(* character.  The byte stored at offset i of the resource is a marker     *)
(* distinct from every other offset's.                                     *)
(***************************************************************************)
EXTENDS Integers, Sequences, FiniteSets, TLC

VARIABLES
    scope,            \* ASGI scope: [method, headers (sequence of <<key, value>>)]
    disk,             \* the resource on the backend: [size, mtime (half-second ticks), kind]
    chunk_size,       \* self.chunk_size
    background,       \* self.background: None, or what the task does when awaited
    stat_result,      \* self.stat_result: None or [st_size, st_mtime]
    headers,          \* self.headers (MutableHeaders): header name -> value
    pc,               \* position of the request's task
    send_header_only, \* local of call()
    ranges,           \* parsed ranges (call) / ranges still to send (handle_multiple_range)
    exc,              \* exception raised and not yet handled, or NoException
    boundary,         \* multipart boundary of this response
    events,           \* ASGI events passed to send(), in order
    f,                \* backend file handle of send_file: [open, pos]
    chunks,           \* windows of parse_chunks still to read in send_file
    buf,              \* buffer returned by the last read, awaiting send
    io,               \* backend operations, in order
    sf_args,          \* <<start, end>> of the running send_file call
    sf_out,           \* history: the bytes the running send_file call has sent
    idx,              \* index in ranges of the part handle_multiple_range is sending
    ret               \* where the handler continues after send_file returns

vars == <<scope, disk, chunk_size, background, stat_result, headers, pc, send_header_only,
          ranges, exc, boundary, events, f, chunks, buf, io, sf_args, sf_out, idx, ret>>

None == "None"

-----------------------------------------------------------------------------
(* Bounds *)

MaxSize == 4        \* resource sizes 0..MaxSize
MaxChunk == 2       \* chunk_size 1..MaxChunk
MaxSpecLen == 6     \* length of the range spec after "bytes=" (parser specification)

-----------------------------------------------------------------------------
(* Text helpers *)

Digits == <<"0","1","2","3","4","5","6","7","8","9">>

IsDigit(c) == \E i \in 1..10 : Digits[i] = c

DigitVal(c) == (CHOOSE i \in 1..10 : Digits[i] = c) - 1

\* int(s) for a non-empty string of decimal digits
RECURSIVE StrToInt(_)
StrToInt(s) ==
    IF Len(s) = 0 THEN 0
    ELSE 10 * StrToInt(SubSeq(s, 1, Len(s) - 1)) + DigitVal(s[Len(s)])

\* str(n) / f"{n}"
RECURSIVE NatToStr(_)
NatToStr(n) ==
    IF n < 10 THEN <<Digits[n + 1]>>
    ELSE NatToStr(n \div 10) \o <<Digits[(n % 10) + 1]>>

IntToStr(n) == IF n < 0 THEN <<"-">> \o NatToStr(0 - n) ELSE NatToStr(n)

\* index of the first c in s, 0 when absent
IndexOf(s, c) ==
    IF \E i \in 1..Len(s) : s[i] = c
    THEN CHOOSE i \in 1..Len(s) : s[i] = c /\ \A j \in 1..(i - 1) : s[j] # c
    ELSE 0

\* first position >= p of s that does not hold a digit (Len(s)+1 when none)
RECURSIVE DigitRunEnd(_, _)
DigitRunEnd(s, p) ==
    IF p <= Len(s) /\ IsDigit(s[p]) THEN DigitRunEnd(s, p + 1) ELSE p

\* re.findall(r"(\d*)-(\d*)", s), scanning from position p
RECURSIVE FindAllFrom(_, _)
FindAllFrom(s, p) ==
    IF p > Len(s) THEN <<>>
    ELSE LET q == DigitRunEnd(s, p)
         IN  IF q <= Len(s) /\ s[q] = "-"
             THEN LET r == DigitRunEnd(s, q + 1)
                  IN  <<<<SubSeq(s, p, q - 1), SubSeq(s, q + 1, r - 1)>>>>
                          \o FindAllFrom(s, r)
             ELSE FindAllFrom(s, p + 1)

FindAll(s) == FindAllFrom(s, 1)

-----------------------------------------------------------------------------
(* exceptions.py *)

MalformedRangeHeaderError(message) ==
    [kind |-> "MalformedRangeHeaderError", status_code |-> 400,
     detail |-> message, headers |-> None]

\* detail is json.dumps({"Content-Range": f"*/{max_size}"})
RangeNotSatisfiableError(max_size) ==
    [kind |-> "RangeNotSatisfiableError", status_code |-> 416,
     detail |-> <<"{","\"","C","o","n","t","e","n","t","-","R","a","n","g","e","\"",":"," ","\"","*","/">>
                    \o IntToStr(max_size) \o <<"\"","}">>,
     headers |-> None]

\* int('') : ValueError: invalid literal for int() with base 10
ValueError ==
    [kind |-> "ValueError", status_code |-> 0, detail |-> <<>>, headers |-> None]

\* no exception is pending
NoException ==
    [kind |-> "None", status_code |-> 0, detail |-> <<>>, headers |-> None]

MsgMalformed == <<"M","a","l","f","o","r","m","e","d"," ","R","a","n","g","e"," ","h","e","a","d","e","r">>
MsgOnlyBytes == <<"O","n","l","y"," ","s","u","p","p","o","r","t"," ","b","y","t","e","s"," ","r","a","n","g","e">>
MsgStartEnd == <<"R","a","n","g","e"," ","h","e","a","d","e","r",":"," ","s","t","a","r","t"," ","m","u","s","t"," ","b","e"," ","l","e","s","s"," ","t","h","a","n"," ","e","n","d">>
MsgNoRange == <<"R","a","n","g","e"," ","h","e","a","d","e","r",":"," ","r","a","n","g","e"," ","m","u","s","t"," ","b","e"," ","r","e","q","u","e","s","t","e","d">>

-----------------------------------------------------------------------------
(* BaseRangeResponse.parse_range *)

Returned(rs) == [kind |-> "return", value |-> rs]
Raised(e) == [kind |-> "raise", value |-> e]

\* a variant of StartInFile that admits start = size
StartInFile_Inclusive(start, size) == 0 <= start /\ start <= size

\* line 118: 0 <= start < self.file_size
StartInFile(start, size) == 0 <= start /\ start < size

\* a variant of ClampEnd that leaves the end as requested
ClampEnd_NoClamp(end, size) == end

\* lines 120-121: an end beyond the resource is clamped to the last byte
ClampEnd(end, size) == IF end >= size THEN size - 1 ELSE end

\* a variant of StartAfterEnd that tolerates a start one past the end
StartAfterEnd_OffByOne(start, end) == start > end + 1

\* line 122: start > end
StartAfterEnd(start, end) == start > end

\* the body of the for loop, from match i on, with the ranges accepted so far
RECURSIVE ParseItems(_, _, _, _)
ParseItems(matches, i, acc, size) ==
    IF i > Len(matches)
    THEN IF Len(acc) = 0
         THEN Raised(MalformedRangeHeaderError(MsgNoRange))
         ELSE Returned(acc)
    ELSE LET start == matches[i][1]
             end == matches[i][2]
         IN  IF start = <<>> /\ end = <<>>
             THEN ParseItems(matches, i + 1, acc, size)
             ELSE IF start = <<>>
             THEN Raised(ValueError)
             ELSE LET s == StrToInt(start)
                      e0 == IF end = <<>> THEN size - 1 ELSE StrToInt(end)
                      e == ClampEnd(e0, size)
                  IN  IF ~StartInFile(s, size)
                      THEN Raised(RangeNotSatisfiableError(size))
                      ELSE IF StartAfterEnd(s, e)
                      THEN Raised(MalformedRangeHeaderError(MsgStartEnd))
                      ELSE ParseItems(matches, i + 1, Append(acc, <<s, e>>), size)

parse_range(range_line, size) ==
    LET eq == IndexOf(range_line, "=")
    IN  IF eq = 0
        THEN Raised(MalformedRangeHeaderError(MsgMalformed))
        ELSE LET unit == SubSeq(range_line, 1, eq - 1)
                 ranges_str == SubSeq(range_line, eq + 1, Len(range_line))
             IN  IF unit # <<"b","y","t","e","s">>
                 THEN Raised(MalformedRangeHeaderError(MsgOnlyBytes))
                 ELSE ParseItems(FindAll(ranges_str), 1, <<>>, size)

-----------------------------------------------------------------------------
(* Resource backend: a local file *)

TicksPerSecond == 2     \* st_mtime is a float; the model counts half seconds

FileByte(i) == "b" \o ToString(i)

\* the bytes of a resource of the given size
Resource(size) == [i \in 1..size |-> FileByte(i - 1)]

Min(a, b) == IF a < b THEN a ELSE b

\* f.read(n) at position pos: fewer than n bytes only at end-of-file
FileRead(size, pos, n) == SubSeq(Resource(size), pos + 1, Min(pos + n, size))

-----------------------------------------------------------------------------
(* BaseRangeResponse: construction and headers *)

media_type == <<"t","e","x","t","/","p","l","a","i","n">>
download_name == None
file_name == <<"f">>        \* os.path.basename(self.path)

HeaderSet(h, k, v) == [x \in (DOMAIN h) \cup {k} |-> IF x = k THEN v ELSE h[x]]

NoHeaders == [x \in {} |-> <<>>]

\* self.headers after __init__: init_headers of an empty body and self.media_type
InitHeaders ==
    HeaderSet(HeaderSet(NoHeaders, "content-length", <<"0">>),
              "content-type", media_type \o <<";"," ","c","h","a","r","s","e","t","=","u","t","f","-","8">>)

\* int(mtime)
IntOfMtime(mtime) == mtime \div TicksPerSecond

TwoDigits(n) == IF n < 10 THEN <<"0">> \o NatToStr(n) ELSE NatToStr(n)

\* email.utils.formatdate(mtime, usegmt=True), for mtime within the first minute of the epoch
formatdate(mtime) ==
    <<"T","h","u",","," ","0","1"," ","J","a","n"," ","1","9","7","0"," ","0","0",":","0","0",":">>
        \o TwoDigits(IntOfMtime(mtime)) \o <<" ","G","M","T">>

\* hashlib.md5(s).hexdigest(): the digest is represented by its preimage, so
\* distinct inputs have distinct digests
md5_hexdigest(s) == <<"m","d","5",":">> \o s

generate_etag(mtime, size) ==
    md5_hexdigest(IntToStr(IntOfMtime(mtime)) \o <<"-">> \o IntToStr(size))

\* a variant of check_if_range that compares with the validator only
check_if_range_EtagOnly(if_range_line, mtime, size) ==
    if_range_line = generate_etag(mtime, size)

check_if_range(if_range_line, mtime, size) ==
    \/ if_range_line = generate_etag(mtime, size)
    \/ if_range_line = formatdate(mtime)

\* urllib.parse.quote of a name made of unreserved characters
quote(name) == name

common_headers(file_mtime, file_size) ==
    LET h == [x \in {"accept-ranges", "last-modified", "etag"} |->
                 CASE x = "accept-ranges" -> <<"b","y","t","e","s">>
                   [] x = "last-modified" -> formatdate(file_mtime)
                   [] x = "etag" -> <<"\"">> \o generate_etag(file_mtime, file_size) \o <<"\"">>]
    IN  IF download_name # None \/ media_type = <<"a","p","p","l","i","c","a","t","i","o","n","/","o","c","t","e","t","-","s","t","r","e","a","m">>
        THEN HeaderSet(h, "content-disposition",
                       <<"a","t","t","a","c","h","m","e","n","t",";"," ","f","i","l","e","n","a","m","e","*","=","u","t","f","-","8","'","'">>
                           \o quote(IF download_name # None THEN download_name ELSE file_name))
        ELSE h

\* to_raw_headers: only a dict contributes headers
to_raw_headers(h) == IF h = None THEN NoHeaders ELSE h

\* self.headers[key] = value for every common header
RECURSIVE UpdateHeaders(_, _, _)
UpdateHeaders(h, new, keys) ==
    IF keys = {} THEN h
    ELSE LET k == CHOOSE x \in keys : TRUE
         IN  UpdateHeaders(HeaderSet(h, k, new[k]), new, keys \ {k})

file_size == stat_result.st_size
file_mtime == stat_result.st_mtime

\* a variant of ContentRange that prints the end as an exclusive bound
ContentRange_ExclusiveEnd(start, end, size) ==
    <<"b","y","t","e","s"," ">> \o IntToStr(start) \o <<"-">> \o IntToStr(end + 1)
        \o <<"/">> \o IntToStr(size)

ContentRange(start, end, size) ==
    <<"b","y","t","e","s"," ">> \o IntToStr(start) \o <<"-">> \o IntToStr(end)
        \o <<"/">> \o IntToStr(size)

-----------------------------------------------------------------------------
(* BaseRangeResponse.parse_multiple_header, parse_chunks *)

create_sub_header(l_start, l_end) ==
    <<"C","o","n","t","e","n","t","-","T","y","p","e",":"," ">> \o media_type
        \o <<"\n","C","o","n","t","e","n","t","-","R","a","n","g","e",":"," ">>
        \o ContentRange(l_start, l_end, file_size) \o <<"\n","\n">>

StartBody(b) == <<"\n","-","-">> \o b \o <<"\n">>

\* f'--{boundary}\n'
BoundaryLine(b) == <<"-","-">> \o b \o <<"\n">>

RECURSIVE SumSize(_, _, _)
SumSize(rs, i, b) ==
    IF i > Len(rs) THEN 0
    ELSE Len(create_sub_header(rs[i][1], rs[i][2]))
           + (rs[i][2] - rs[i][1]) + 1 + 1
           + Len(BoundaryLine(b))
           + SumSize(rs, i + 1, b)

\* the sum_size component of parse_multiple_header's result
parse_multiple_header(rs, b) == Len(StartBody(b)) + SumSize(rs, 1, b)

RECURSIVE ChunksFrom(_, _, _)
ChunksFrom(current_start, end, size) ==
    IF current_start < end
    THEN <<<<current_start, Min(current_start + size, end)>>>>
             \o ChunksFrom(current_start + size, end, size)
    ELSE <<>>

parse_chunks(start, end) == ChunksFrom(start, end, chunk_size)

-----------------------------------------------------------------------------
(* ASGI events *)

StartEvent(status, hs) ==
    [type |-> "http.response.start", status |-> status, headers |-> hs]

BodyEvent(body, more_body) ==
    [type |-> "http.response.body", body |-> body, more_body |-> more_body]

Send(ev) == events' = Append(events, ev)

-----------------------------------------------------------------------------
(* FileRangeResponse.setup, BaseRangeResponse.setup *)

Setup ==
    /\ pc = "setup"
    /\ disk.kind = "file"
    /\ stat_result' = [st_size |-> disk.size, st_mtime |-> disk.mtime]
    /\ headers' = LET new == common_headers(disk.mtime, disk.size)
                  IN  UpdateHeaders(headers, new, DOMAIN new)
    /\ pc' = "call"
    /\ UNCHANGED <<background, sf_out, scope, disk, chunk_size, send_header_only, ranges, exc,
                   boundary, events, f, chunks, buf, io, sf_args, idx, ret>>

-----------------------------------------------------------------------------
(* BaseRangeResponse.call: lines 271-298, up to the choice of the handler *)

Upper(m) ==
    CASE m = "get" -> "GET"
      [] m = "head" -> "HEAD"
      [] OTHER -> m

\* the loop over scope["headers"]: the last range / if-range header wins
RECURSIVE ScanHeaders(_, _, _)
ScanHeaders(hs, r, ir) ==
    IF Len(hs) = 0 THEN [http_range |-> r, http_if_range |-> ir]
    ELSE IF hs[1][1] = "range" THEN ScanHeaders(Tail(hs), hs[1][2], ir)
    ELSE IF hs[1][1] = "if-range" THEN ScanHeaders(Tail(hs), r, hs[1][2])
    ELSE ScanHeaders(Tail(hs), r, ir)

RequestHeaders == ScanHeaders(scope.headers, <<>>, <<>>)

\* line 278
ServeFull(http_range, http_if_range) ==
    \/ http_range = <<>>
    \/ (http_if_range # <<>> /\ check_if_range(http_if_range, file_mtime, file_size))

Call ==
    /\ pc = "call"
    /\ send_header_only' = (Upper(scope.method) = "HEAD")
    /\ LET h == RequestHeaders
       IN  IF ServeFull(h.http_range, h.http_if_range)
           THEN /\ pc' = "handle_all"
                /\ UNCHANGED <<ranges, exc>>
           ELSE LET res == parse_range(h.http_range, file_size)
                IN  IF res.kind = "return"
                    THEN /\ ranges' = res.value
                         /\ pc' = IF Len(res.value) = 1 THEN "handle_single_range"
                                  ELSE "handle_multiple_range"
                         /\ UNCHANGED exc
                    ELSE /\ exc' = res.value
                         /\ pc' = IF res.value.kind \in {"MalformedRangeHeaderError",
                                                         "RangeNotSatisfiableError"}
                                  THEN "except" ELSE "unwind"
                         /\ UNCHANGED ranges
    /\ UNCHANGED <<background, sf_out, scope, disk, chunk_size, stat_result, headers, boundary,
                   events, f, chunks, buf, io, sf_args, idx, ret>>

\* lines 284-289: the start event of an error response
ExceptStart ==
    /\ pc = "except"
    /\ Send(StartEvent(exc.status_code, to_raw_headers(exc.headers)))
    /\ pc' = "except_body"
    /\ UNCHANGED <<background, sf_out, scope, disk, chunk_size, stat_result, headers, send_header_only,
                   ranges, exc, boundary, f, chunks, buf, io, sf_args, idx, ret>>

\* lines 290-293: the body event of an error response
ExceptBody ==
    /\ pc = "except_body"
    /\ Send([type |-> "http.response.body", body |-> exc.detail])
    /\ exc' = NoException
    /\ pc' = "returned"
    /\ UNCHANGED <<background, sf_out, scope, disk, chunk_size, stat_result, headers, send_header_only,
                   ranges, boundary, f, chunks, buf, io, sf_args, idx, ret>>

-----------------------------------------------------------------------------
(* BaseRangeResponse.handle_all *)

\* continue with send_file(start, end), then at pc = after
CallSendFile(start, end, after) ==
    /\ pc' = "sf_open"
    /\ sf_args' = <<start, end>>
    /\ ret' = after

HandleAll ==
    /\ pc = "handle_all"
    /\ LET h1 == HeaderSet(headers, "content-range", ContentRange(0, file_size - 1, file_size))
           h2 == HeaderSet(h1, "content-type", media_type)
           h3 == HeaderSet(h2, "content-length", IntToStr(file_size))
       IN  /\ headers' = h3
           /\ Send(StartEvent(200, h3))
    /\ IF send_header_only
       THEN pc' = "final_body" /\ UNCHANGED <<sf_args, ret>>
       ELSE CallSendFile(0, file_size - 1, "final_body")
    /\ UNCHANGED <<background, sf_out, scope, disk, chunk_size, stat_result, send_header_only, ranges,
                   exc, boundary, f, chunks, buf, io, idx>>

\* the closing send({'type': 'http.response.body', 'body': b''}) of each handler
FinalBody ==
    /\ pc = "final_body"
    /\ Send([type |-> "http.response.body", body |-> <<>>])
    /\ pc' = "returned"
    /\ UNCHANGED <<background, sf_out, scope, disk, chunk_size, stat_result, headers, send_header_only,
                   ranges, exc, boundary, f, chunks, buf, io, sf_args, idx, ret>>

-----------------------------------------------------------------------------
(* BaseRangeResponse.handle_single_range *)

HandleSingleRange ==
    /\ pc = "handle_single_range"
    /\ LET start == ranges[1][1]
           end == ranges[1][2]
           h1 == HeaderSet(headers, "content-range", ContentRange(start, end, file_size))
           h2 == HeaderSet(h1, "content-type", media_type)
           h3 == HeaderSet(h2, "content-length", IntToStr(end + 1 - start))
       IN  /\ headers' = h3
           /\ IF send_header_only
              THEN /\ Send([type |-> "http.response.body", body |-> <<>>])
                   /\ pc' = "returned"
                   /\ UNCHANGED <<sf_args, ret>>
              ELSE /\ Send(StartEvent(206, h3))
                   /\ CallSendFile(start, end, "final_body")
    /\ UNCHANGED <<background, sf_out, scope, disk, chunk_size, stat_result, send_header_only, ranges,
                   exc, boundary, f, chunks, buf, io, idx>>

-----------------------------------------------------------------------------
(* BaseRangeResponse.handle_multiple_range *)

\* random.choices("abcdefghijklmnopqrstuvwxyz0123456789", k=13)
Boundaries ==
    { <<"a","b","c","d","e","f","g","h","i","j","k","l","m">>,
      <<"0","1","2","3","4","5","6","7","8","9","x","y","z">> }

\* lines 231-244
HandleMultipleRange ==
    /\ pc = "handle_multiple_range"
    /\ \E b \in Boundaries :
         /\ boundary' = b
         /\ LET h1 == HeaderSet(headers, "content-length",
                                IntToStr(parse_multiple_header(ranges, b)))
                h2 == HeaderSet(h1, "content-type",
                                <<"m","u","l","t","i","p","a","r","t","/","b","y","t","e","r","a","n","g","e","s",";"," ","b","o","u","n","d","a","r","y","=">> \o b)
            IN  /\ headers' = h2
                /\ Send(StartEvent(206, h2))
    /\ pc' = IF send_header_only THEN "final_body" ELSE "multi_start_body"
    /\ UNCHANGED <<background, sf_out, scope, disk, chunk_size, stat_result, send_header_only, ranges,
                   exc, f, chunks, buf, io, sf_args, idx, ret>>

\* lines 246-250
MultiStartBody ==
    /\ pc = "multi_start_body"
    /\ Send(BodyEvent(StartBody(boundary), TRUE))
    /\ idx' = 1
    /\ pc' = IF Len(ranges) >= 1 THEN "multi_sub_header" ELSE "final_body"
    /\ UNCHANGED <<background, sf_out, scope, disk, chunk_size, stat_result, headers, send_header_only,
                   ranges, exc, boundary, f, chunks, buf, io, sf_args, ret>>

\* lines 252-257: the part's sub-header, then send_file
MultiSubHeader ==
    /\ pc = "multi_sub_header"
    /\ Send(BodyEvent(create_sub_header(ranges[idx][1], ranges[idx][2]), TRUE))
    /\ CallSendFile(ranges[idx][1], ranges[idx][2], "multi_separator")
    /\ UNCHANGED <<background, sf_out, scope, disk, chunk_size, stat_result, headers, send_header_only,
                   ranges, exc, boundary, f, chunks, buf, io, idx>>

\* lines 259-263: the separator after the part, and the loop's next iteration
MultiSeparator ==
    /\ pc = "multi_separator"
    /\ Send(BodyEvent(<<"\n">> \o BoundaryLine(boundary), TRUE))
    /\ idx' = idx + 1
    /\ pc' = IF idx + 1 <= Len(ranges) THEN "multi_sub_header" ELSE "final_body"
    /\ UNCHANGED <<background, sf_out, scope, disk, chunk_size, stat_result, headers, send_header_only,
                   ranges, exc, boundary, f, chunks, buf, io, sf_args, ret>>

-----------------------------------------------------------------------------
(* FileRangeResponse.send_file *)

\* aiofiles.open(path, 'rb')
SfOpen ==
    /\ pc = "sf_open"
    /\ f' = [open |-> TRUE, pos |-> 0]
    /\ io' = Append(io, [op |-> "open", arg |-> 0])
    /\ sf_out' = <<>>
    /\ pc' = "sf_seek"
    /\ UNCHANGED <<background, scope, disk, chunk_size, stat_result, headers, send_header_only,
                   ranges, exc, boundary, events, chunks, buf, sf_args, idx, ret>>

\* f.seek(start), then the windows the for loop will walk
SfSeek ==
    /\ pc = "sf_seek"
    /\ f' = [f EXCEPT !.pos = sf_args[1]]
    /\ io' = Append(io, [op |-> "seek", arg |-> sf_args[1]])
    /\ chunks' = parse_chunks(sf_args[1], sf_args[2])
    /\ pc' = IF Len(chunks') > 0 THEN "sf_read" ELSE "sf_close"
    /\ UNCHANGED <<background, sf_out, scope, disk, chunk_size, stat_result, headers, send_header_only,
                   ranges, exc, boundary, events, buf, sf_args, idx, ret>>

\* a variant of SfRead that positions the handle again before every read
SfRead_Reseek ==
    /\ pc = "sf_read"
    /\ LET n == chunks[1][2] + 1 - chunks[1][1]
           data == FileRead(disk.size, chunks[1][1], n)
       IN  /\ buf' = data
           /\ f' = [f EXCEPT !.pos = chunks[1][1] + Len(data)]
           /\ io' = io \o <<[op |-> "seek", arg |-> chunks[1][1]], [op |-> "read", arg |-> n]>>
    /\ pc' = "sf_send"
    /\ UNCHANGED <<background, sf_out, scope, disk, chunk_size, stat_result, headers, send_header_only,
                   ranges, exc, boundary, events, chunks, sf_args, idx, ret>>

\* f.read(sub_end + 1 - sub_start)
SfRead ==
    /\ pc = "sf_read"
    /\ LET n == chunks[1][2] + 1 - chunks[1][1]
           data == FileRead(disk.size, f.pos, n)
       IN  /\ buf' = data
           /\ f' = [f EXCEPT !.pos = f.pos + Len(data)]
           /\ io' = Append(io, [op |-> "read", arg |-> n])
    /\ pc' = "sf_send"
    /\ UNCHANGED <<background, sf_out, scope, disk, chunk_size, stat_result, headers, send_header_only,
                   ranges, exc, boundary, events, chunks, sf_args, idx, ret>>

\* send of the buffer just read
SfSend ==
    /\ pc = "sf_send"
    /\ Send(BodyEvent(buf, TRUE))
    /\ sf_out' = sf_out \o buf
    /\ buf' = <<>>
    /\ chunks' = Tail(chunks)
    /\ pc' = IF Len(chunks) > 1 THEN "sf_read" ELSE "sf_close"
    /\ UNCHANGED <<background, scope, disk, chunk_size, stat_result, headers, send_header_only,
                   ranges, exc, boundary, f, io, sf_args, idx, ret>>

\* leaving "async with": the handle is closed and send_file returns
SfClose ==
    /\ pc = "sf_close"
    /\ f' = [f EXCEPT !.open = FALSE]
    /\ io' = Append(io, [op |-> "close", arg |-> 0])
    /\ pc' = IF exc.kind = "None" THEN ret ELSE "unwind"
    /\ UNCHANGED <<background, sf_out, scope, disk, chunk_size, stat_result, headers, send_header_only,
                   ranges, exc, boundary, events, chunks, buf, sf_args, idx, ret>>

-----------------------------------------------------------------------------
(* BaseRangeResponse.__call__: the finally clause *)

\* a variant of Done without the finally clause: done() runs only when
\* nothing was raised
Done_SkippedOnError ==
    /\ \/ pc = "returned" /\ background = None
       \/ pc \in {"after_background", "unwind"}
    /\ io' = IF exc.kind = "None"
             THEN Append(io, [op |-> "done", arg |-> Len(events)])
             ELSE io
    /\ pc' = IF exc.kind = "None" THEN "finished" ELSE "raised"
    /\ UNCHANGED <<background, sf_out, scope, disk, chunk_size, stat_result, headers, send_header_only,
                   ranges, exc, boundary, events, f, chunks, buf, sf_args, idx, ret>>

\* done(), after call and the background task returned or while an exception
\* propagates; the log entry keeps the number of events sent before it
Done ==
    /\ \/ pc = "returned" /\ background = None
       \/ pc \in {"after_background", "unwind"}
    /\ io' = Append(io, [op |-> "done", arg |-> Len(events)])
    /\ pc' = IF exc.kind = "None" THEN "finished" ELSE "raised"
    /\ UNCHANGED <<background, sf_out, scope, disk, chunk_size, stat_result, headers, send_header_only,
                   ranges, exc, boundary, events, f, chunks, buf, sf_args, idx, ret>>

-----------------------------------------------------------------------------
(* Requests and resources *)

Methods == {"GET", "HEAD"}

Mtimes == {2, 3}        \* 1.0 s and 1.5 s after the epoch

Disks == [size : 0..MaxSize, mtime : Mtimes, kind : {"file"}]

BytesEq == <<"b","y","t","e","s","=">>

\* range items: digits?-digits?
Nums == {<<>>, <<"0">>, <<"2">>, <<"9">>}
Items == {a \o <<"-">> \o b : a \in Nums, b \in Nums}

RangeSpecs ==
    Items \cup {x \o <<",">> \o y : x \in Items, y \in Items}
          \cup { <<>>, <<"x">>, <<"0","-","2","x">>, <<"x","0","-","2">>,
                 <<"0","-","0"," ","2","-","2">>, <<"0","-","2","-","9">>,
                 <<",">>, <<"0","0","-","0","2">> }

RangeLines ==
    {BytesEq \o sp : sp \in RangeSpecs}
        \cup { <<"b","y","t","e","s">>,
               <<"i","t","e","m","s","=","0","-","2">>,
               <<"B","y","t","e","s","=","0","-","2">>,
               <<"=","0","-","2">>,
               <<"b","y","t","e","s"," ","0","-","2">> }

HostHeader == <<"host", <<"h">>>>

\* header lists without an If-Range header
PlainHeaderLists ==
    { <<HostHeader>> }
        \cup { <<HostHeader, <<"range", l>>>> : l \in RangeLines }
        \cup { <<<<"range", <<"b","y","t","e","s","=","9","-">>>>, HostHeader,
                 <<"range", <<"b","y","t","e","s","=","0","-","0">>>>>> }

\* Range lines sent together with an If-Range header
ConditionalRangeLines ==
    { <<>>,
      <<"b","y","t","e","s","=","0","-","2">>,
      <<"b","y","t","e","s","=","0","-","0",",","2","-">>,
      <<"b","y","t","e","s","=","9","-">>,
      <<"b","y","t","e","s","=","x">> }

IfRangeValues(d) ==
    { generate_etag(d.mtime, d.size),
      generate_etag(d.mtime, d.size + 1),
      generate_etag(d.mtime + TicksPerSecond, d.size),
      <<"\"">> \o generate_etag(d.mtime, d.size) \o <<"\"">>,
      formatdate(d.mtime),
      formatdate(d.mtime + TicksPerSecond),
      <<>> }

ConditionalHeaderLists(d) ==
    { <<<<"if-range", v>>, <<"range", l>>>> : v \in IfRangeValues(d), l \in ConditionalRangeLines }

NoFile == [open |-> FALSE, pos |-> 0]

Init ==
    /\ disk \in Disks
    /\ chunk_size \in 1..MaxChunk
    /\ background = None
    /\ \E m \in Methods, hs \in PlainHeaderLists \cup ConditionalHeaderLists(disk) :
           scope = [method |-> m, headers |-> hs]
    /\ stat_result = None
    /\ headers = InitHeaders
    /\ pc = "setup"
    /\ send_header_only = FALSE
    /\ ranges = <<>>
    /\ exc = NoException
    /\ boundary = <<>>
    /\ events = <<>>
    /\ f = NoFile
    /\ chunks = <<>>
    /\ buf = <<>>
    /\ io = <<>>
    /\ sf_args = <<0, 0>>
    /\ sf_out = <<>>
    /\ idx = 0
    /\ ret = "none"

Next ==
    \/ Setup
    \/ Call
    \/ ExceptStart
    \/ ExceptBody
    \/ HandleAll
    \/ FinalBody
    \/ HandleSingleRange
    \/ HandleMultipleRange
    \/ MultiStartBody
    \/ MultiSubHeader
    \/ MultiSeparator
    \/ SfOpen
    \/ SfSeek
    \/ SfRead
    \/ SfSend
    \/ SfClose
    \/ Done

Spec == Init /\ [][Next]_vars

-----------------------------------------------------------------------------
(* parse_range on its own: every range spec over a small alphabet *)

MaxParseSize == 2       \* resource sizes 0..MaxParseSize

ParseAlphabet == {"0", "1", "2", "-", ","}

ParseSpecs == UNION {[1..k -> ParseAlphabet] : k \in 0..MaxSpecLen}

ParseLines ==
    {BytesEq \o sp : sp \in ParseSpecs}
        \cup {u \o sp : u \in { <<"i","t","e","m","s","=">>, <<"b","y","t","e","s">>, <<"=">> },
                        sp \in {<<>>, <<"0","-">>, <<"0","-","1">>}}

InitParse ==
    /\ disk \in [size : 0..MaxParseSize, mtime : {2}, kind : {"file"}]
    /\ chunk_size = 1
    /\ background = None
    /\ \E l \in ParseLines : scope = [method |-> "GET", headers |-> <<<<"range", l>>>>]
    /\ stat_result = [st_size |-> disk.size, st_mtime |-> disk.mtime]
    /\ headers = InitHeaders
    /\ pc = "parse"
    /\ send_header_only = FALSE
    /\ ranges = <<>>
    /\ exc = NoException
    /\ boundary = <<>>
    /\ events = <<>>
    /\ f = NoFile
    /\ chunks = <<>>
    /\ buf = <<>>
    /\ io = <<>>
    /\ sf_args = <<0, 0>>
    /\ sf_out = <<>>
    /\ idx = 0
    /\ ret = "none"

\* ranges = self.parse_range(http_range, self.file_size)
ParseRange ==
    /\ pc = "parse"
    /\ LET res == parse_range(RequestHeaders.http_range, file_size)
       IN  IF res.kind = "return"
           THEN ranges' = res.value /\ UNCHANGED exc
           ELSE exc' = res.value /\ UNCHANGED ranges
    /\ pc' = "parsed"
    /\ UNCHANGED <<background, sf_out, scope, disk, chunk_size, stat_result, headers, send_header_only,
                   boundary, events, f, chunks, buf, io, sf_args, idx, ret>>

NextParse == ParseRange

SpecParse == InitParse /\ [][NextParse]_vars

-----------------------------------------------------------------------------
(* Observations on the events of a response *)

IsStart(ev) == ev.type = "http.response.start"
IsBody(ev) == ev.type = "http.response.body"

\* ASGI: more_body defaults to False
MoreBody(ev) == IF "more_body" \in DOMAIN ev THEN ev.more_body ELSE FALSE

StartIndexes == {i \in 1..Len(events) : IsStart(events[i])}

\* the start event of the response, when exactly one was sent
TheStart == events[CHOOSE i \in StartIndexes : TRUE]

RECURSIVE BodyBytesFrom(_)
BodyBytesFrom(i) ==
    IF i > Len(events) THEN 0
    ELSE (IF IsBody(events[i]) THEN Len(events[i].body) ELSE 0) + BodyBytesFrom(i + 1)

\* number of bytes carried by all body events sent
SentBodyBytes == BodyBytesFrom(1)

HasHeader(ev, name) == name \in DOMAIN ev.headers

DeclaredLength(ev) == StrToInt(ev.headers["content-length"])

\* call() has returned and done() has run
Finished == pc = "finished"

-----------------------------------------------------------------------------
(* Claims *)

\* C1: for a GET request whose Range header parses to two or more ranges, the
\* content-length of the start event equals the number of bytes carried by all
\* body events of the response.
C1_MultipartLengthExact ==
    (Finished /\ ~send_header_only /\ Len(ranges) >= 2)
        => /\ Cardinality(StartIndexes) = 1
           /\ DeclaredLength(TheStart) = SentBodyBytes

\* C2: for 0 <= start <= end < S, the buffers send_file sends, concatenated,
\* are exactly the resource bytes at offsets start..end.
C2_SendFileExactBytes ==
    (pc = "sf_close" /\ 0 <= sf_args[1] /\ sf_args[1] <= sf_args[2]
                     /\ sf_args[2] < disk.size)
        => sf_out = SubSeq(Resource(disk.size), sf_args[1] + 1, sf_args[2] + 1)

\* C3: on every path that sends anything, exactly one start event is sent, it
\* carries content-length, and it precedes every body event.
C3_OneStartBeforeBody ==
    (Len(events) >= 1)
        => /\ IsStart(events[1])
           /\ HasHeader(events[1], "content-length")
           /\ StartIndexes = {1}

\* the start event a GET request with the same headers and resource sends
\* (with the same multipart boundary): the handler is chosen before the method
\* is looked at, and each handler's GET path sends the headers it has just set
GetStartStatus ==
    IF Len(ranges) >= 1 THEN 206
    ELSE IF ServeFull(RequestHeaders.http_range, RequestHeaders.http_if_range) THEN 200
    ELSE parse_range(RequestHeaders.http_range, file_size).value.status_code

\* C4: a HEAD request produces a start event with the same status and headers
\* as the equivalent GET request.
C4_HeadStartSameAsGet ==
    (Finished /\ send_header_only)
        => /\ Cardinality(StartIndexes) = 1
           /\ TheStart.status = GetStartStatus
           /\ (TheStart.status \in {200, 206} => TheStart.headers = headers)

\* C5: a GET request whose Range header parses to exactly one range (start, end)
\* gets status 206, content-range 'bytes start-end/S', content-length
\* end-start+1, and that many body bytes.
C5_SingleRangeGet ==
    (Finished /\ ~send_header_only /\ Len(ranges) = 1)
        => /\ Cardinality(StartIndexes) = 1
           /\ TheStart.status = 206
           /\ TheStart.headers["content-range"]
                  = ContentRange(ranges[1][1], ranges[1][2], disk.size)
           /\ DeclaredLength(TheStart) = ranges[1][2] - ranges[1][1] + 1
           /\ SentBodyBytes = DeclaredLength(TheStart)

-----------------------------------------------------------------------------
(* Range headers as the specification describes them *)

BytesUnit(line) == Len(line) >= 6 /\ SubSeq(line, 1, 6) = BytesEq

\* the text after "bytes="
SpecOf(line) == SubSeq(line, 7, Len(line))

RECURSIVE SplitComma(_)
SplitComma(s) ==
    LET c == IndexOf(s, ",")
    IN  IF c = 0 THEN <<s>>
        ELSE <<SubSeq(s, 1, c - 1)>> \o SplitComma(SubSeq(s, c + 1, Len(s)))

AllDigits(t) == \A i \in 1..Len(t) : IsDigit(t[i])

\* digits?-digits?
IsPattern(p) ==
    LET d == IndexOf(p, "-")
    IN  /\ d >= 1
        /\ AllDigits(SubSeq(p, 1, d - 1))
        /\ AllDigits(SubSeq(p, d + 1, Len(p)))

PartBefore(p) == SubSeq(p, 1, IndexOf(p, "-") - 1)
PartAfter(p) == SubSeq(p, IndexOf(p, "-") + 1, Len(p))

\* 'N-' or 'N-M'
HasStart(p) == IsPattern(p) /\ Len(PartBefore(p)) >= 1

\* '-N'
IsSuffixForm(p) == IsPattern(p) /\ Len(PartBefore(p)) = 0 /\ Len(PartAfter(p)) >= 1

\* 'N-' or 'N-M' with 0 <= N < size and N <= M
IsValidItem(p, size) ==
    /\ HasStart(p)
    /\ StrToInt(PartBefore(p)) < size
    /\ (Len(PartAfter(p)) >= 1 => StrToInt(PartBefore(p)) <= StrToInt(PartAfter(p)))

\* the interval the specification assigns to a valid item
IntervalOf(p, size) ==
    <<StrToInt(PartBefore(p)),
      IF Len(PartAfter(p)) = 0 THEN size - 1 ELSE Min(StrToInt(PartAfter(p)), size - 1)>>

RangeLine == RequestHeaders.http_range

Pieces == SplitComma(SpecOf(RangeLine))

Parsed == pc = "parsed"

Raised416 ==
    /\ exc.kind = "RangeNotSatisfiableError"
    /\ exc.status_code = 416
    /\ exc.detail = <<"{","\"","C","o","n","t","e","n","t","-","R","a","n","g","e","\"",":"," ","\"","*","/">>
                        \o IntToStr(disk.size) \o <<"\"","}">>

\* the request is over: done() has run, call() having returned or raised
Over == pc \in {"finished", "raised"}

SentFull == \E i \in StartIndexes : events[i].status = 200

IfRangeIsCurrent ==
    LET v == RequestHeaders.http_if_range
    IN  /\ v # <<>>
        /\ \/ v = generate_etag(disk.mtime, disk.size)
           \/ v = formatdate(disk.mtime)

\* C6: with a non-empty Range header the response is Full (200) exactly when
\* If-Range is present and equals the current validator or the HTTP date of
\* mtime; a validator of a different size gives a non-200 outcome; without a
\* Range header the response is always Full.
C6_FullIffIfRangeCurrent ==
    Over =>
        /\ (RangeLine = <<>> => SentFull)
        /\ (RangeLine # <<>> => (SentFull <=> IfRangeIsCurrent))
        /\ ((RangeLine # <<>>
               /\ RequestHeaders.http_if_range = generate_etag(disk.mtime, disk.size + 1))
              => ~SentFull)

C6_Witness ==
    /\ Finished
    /\ RangeLine # <<>>
    /\ RequestHeaders.http_if_range = generate_etag(disk.mtime, disk.size)
    /\ SentFull

AllValidItems ==
    /\ BytesUnit(RangeLine)
    /\ disk.size >= 1
    /\ \A i \in 1..Len(Pieces) : IsValidItem(Pieces[i], disk.size)

\* C7: for 'bytes=<item>,<item>,...' with every item 'N-' or 'N-M', 0 <= N < S
\* and N <= M, parse_range returns one interval per item, in header order:
\* (N, S-1) for 'N-', (N, min(M, S-1)) for 'N-M'; each has 0 <= start <= end < S.
C7_OneIntervalPerItem ==
    (Parsed /\ AllValidItems) =>
        /\ exc.kind = "None"
        /\ ranges = [i \in 1..Len(Pieces) |-> IntervalOf(Pieces[i], disk.size)]
        /\ \A i \in 1..Len(ranges) :
               0 <= ranges[i][1] /\ ranges[i][1] <= ranges[i][2] /\ ranges[i][2] < disk.size

\* two items out of order, the second one clamped
C7_Witness ==
    /\ Parsed
    /\ AllValidItems
    /\ Len(Pieces) = 2
    /\ ranges = <<<<1, 1>>, <<0, 1>>>>
    /\ Len(PartAfter(Pieces[2])) >= 1
    /\ StrToInt(PartAfter(Pieces[2])) > 1

OffendingItem(p) == HasStart(p) /\ StrToInt(PartBefore(p)) >= disk.size

\* C8 (as claimed): a header with unit bytes that contains an item whose start
\* is >= the resource size yields RangeNotSatisfiable (416) carrying the size,
\* whatever the other items 'N-' / 'N-M' are (valid or not) and wherever they stand.
C8_Claimed_416Regardless ==
    (/\ Parsed
     /\ BytesUnit(RangeLine)
     /\ \A i \in 1..Len(Pieces) : HasStart(Pieces[i])
     /\ \E i \in 1..Len(Pieces) : OffendingItem(Pieces[i]))
        => Raised416

\* some item has a start >= size and every item before it is a valid range
FirstOffenderAfterValid ==
    /\ BytesUnit(RangeLine)
    /\ \E k \in 1..Len(Pieces) :
          /\ OffendingItem(Pieces[k])
          /\ \A j \in 1..(k - 1) : IsValidItem(Pieces[j], disk.size)

\* C8 (amended): a header with unit bytes in which an item has a start >= the
\* resource size and every item before it is a valid range yields
\* RangeNotSatisfiable (416) carrying the size, whatever follows that item.
C8_416WhenFirstInvalid ==
    (Parsed /\ FirstOffenderAfterValid) => Raised416

\* a valid range, then the offending item, then something that is no range
C8_Witness ==
    /\ Parsed
    /\ Len(Pieces) = 3
    /\ IsValidItem(Pieces[1], disk.size)
    /\ OffendingItem(Pieces[2])
    /\ ~IsValidItem(Pieces[3], disk.size)
    /\ Raised416

Framed400 ==
    /\ Finished
    /\ Len(events) = 2
    /\ IsStart(events[1])
    /\ events[1].status = 400
    /\ IsBody(events[2])

RangeHonoured ==
    ~ServeFull(RequestHeaders.http_range, RequestHeaders.http_if_range)

\* C9: a Range header whose items are all of suffix form '-N' is answered with
\* a framed 400 response; no other error or exception is produced.
C9_SuffixOnlyIs400 ==
    (/\ Over
     /\ RangeHonoured
     /\ BytesUnit(RangeLine)
     /\ \A i \in 1..Len(Pieces) : IsSuffixForm(Pieces[i]))
        => Framed400

\* a header that is syntactically invalid or semantically empty
InvalidRangeHeader ==
    \/ IndexOf(RangeLine, "=") = 0
    \/ SubSeq(RangeLine, 1, IndexOf(RangeLine, "=") - 1) # <<"b","y","t","e","s">>
    \/ \E i \in 1..Len(Pieces) : ~IsPattern(Pieces[i])
    \/ \A i \in 1..Len(Pieces) : Pieces[i] = <<"-">>

\* C10: every syntactically invalid or semantically empty Range header is
\* answered with a framed 400 response: one start event with status 400, then
\* one body event.
C10_InvalidHeaderIs400 ==
    (Over /\ RangeHonoured /\ InvalidRangeHeader) => Framed400

-----------------------------------------------------------------------------
\* the header is 'bytes=N-M' with N > M
SingleReversedItem ==
    /\ BytesUnit(RangeLine)
    /\ Len(Pieces) = 1
    /\ HasStart(Pieces[1])
    /\ Len(PartAfter(Pieces[1])) >= 1
    /\ StrToInt(PartBefore(Pieces[1])) > StrToInt(PartAfter(Pieces[1]))

RaisedMalformed ==
    exc.kind = "MalformedRangeHeaderError" /\ exc.status_code = 400

\* C11 (as claimed): for every resource size, a Range header whose only item is
\* 'N-M' with N > M yields MalformedRange (400).
C11_Claimed_ReversedIs400 ==
    (Parsed /\ SingleReversedItem) => RaisedMalformed

\* C11 (amended): for every resource size S, a Range header whose only item is
\* 'N-M' with N > M and N < S yields MalformedRange (400).
C11_ReversedInFileIs400 ==
    (Parsed /\ SingleReversedItem /\ StrToInt(PartBefore(Pieces[1])) < disk.size)
        => RaisedMalformed

C11_Witness ==
    /\ Parsed
    /\ SingleReversedItem
    /\ StrToInt(PartBefore(Pieces[1])) < disk.size
    /\ RaisedMalformed

-----------------------------------------------------------------------------
StarSlashSize == <<"*","/">> \o IntToStr(disk.size)

\* C12: when parsing the Range header raises RangeNotSatisfiable for a resource
\* of size S, the start event sent has status 416 and a content-range header
\* advertising '*/S'.
C12_416CarriesContentRange ==
    (exc.kind = "RangeNotSatisfiableError" /\ pc = "except_body")
        => /\ Len(events) = 1
           /\ IsStart(events[1])
           /\ events[1].status = 416
           /\ HasHeader(events[1], "content-range")
           /\ events[1].headers["content-range"]
                  \in {StarSlashSize, <<"b","y","t","e","s"," ">> \o StarSlashSize}

\* C13: every start event sent, whatever the outcome, has the headers
\* accept-ranges: bytes, last-modified (HTTP date of mtime) and etag (the quoted
\* validator).
C13_CommonHeadersOnEveryStart ==
    \A i \in StartIndexes :
        /\ HasHeader(events[i], "accept-ranges")
        /\ events[i].headers["accept-ranges"] = <<"b","y","t","e","s">>
        /\ HasHeader(events[i], "last-modified")
        /\ events[i].headers["last-modified"] = formatdate(disk.mtime)
        /\ HasHeader(events[i], "etag")
        /\ events[i].headers["etag"]
               = <<"\"">> \o generate_etag(disk.mtime, disk.size) \o <<"\"">>

BackendReads == {i \in 1..Len(io) : io[i].op \in {"open", "seek", "read"}}

\* C14: for a HEAD request, under every condition, no backend open/seek/read is
\* performed and every body event sent carries zero bytes.
C14_HeadReadsNothingSendsNothing ==
    (Upper(scope.method) = "HEAD")
        => /\ BackendReads = {}
           /\ \A i \in 1..Len(events) : IsBody(events[i]) => Len(events[i].body) = 0

-----------------------------------------------------------------------------
\* C16: each backend read issued by send_file requests at most chunk_size
\* bytes, so each buffer handed to the transport is at most chunk_size long.
C16_ReadsAtMostChunkSize ==
    /\ \A i \in 1..Len(io) : io[i].op = "read" => io[i].arg <= chunk_size
    /\ Len(buf) <= chunk_size

\* the request has no Range header or its If-Range matches
FullRequested == RangeLine = <<>> \/ IfRangeIsCurrent

\* C17: the response to a request with no Range header (or with a matching
\* If-Range) has status 200, content-length S and content-range
\* 'bytes 0-<S-1>/<S>'.
C17_FullResponseHeaders ==
    (Finished /\ FullRequested)
        => /\ Cardinality(StartIndexes) = 1
           /\ TheStart.status = 200
           /\ HasHeader(TheStart, "content-length")
           /\ DeclaredLength(TheStart) = disk.size
           /\ HasHeader(TheStart, "content-range")
           /\ TheStart.headers["content-range"]
                  = <<"b","y","t","e","s"," ","0","-">> \o IntToStr(disk.size - 1)
                        \o <<"/">> \o IntToStr(disk.size)

C17_Witness ==
    /\ Finished
    /\ RangeLine # <<>>
    /\ IfRangeIsCurrent
    /\ disk.size >= 2
    /\ TheStart.status = 200
    /\ DeclaredLength(TheStart) = disk.size

RECURSIVE BodyFrom(_)
BodyFrom(i) ==
    IF i > Len(events) THEN <<>>
    ELSE (IF IsBody(events[i]) THEN events[i].body ELSE <<>>) \o BodyFrom(i + 1)

\* the bodies of all body events sent, concatenated
SentBody == BodyFrom(1)

\* C19: the body of a Full (200) response to a GET request is exactly the S
\* bytes of the resource, in order, for every S >= 0 and chunk_size >= 1.
C19_FullBodyIsResource ==
    (Finished /\ FullRequested /\ Upper(scope.method) = "GET")
        => SentBody = Resource(disk.size)

\* C20: the value of the etag response header, sent back as If-Range together
\* with a Range header while the resource is unchanged, is recognised as the
\* current validator: the response is Full (200).
C20_EtagHeaderRoundTrip ==
    (/\ Over
     /\ RangeLine # <<>>
     /\ RequestHeaders.http_if_range = common_headers(disk.mtime, disk.size)["etag"])
        => SentFull

-----------------------------------------------------------------------------
OpIndexes(op) == {i \in 1..Len(io) : io[i].op = op}

NumOpens == Cardinality(OpIndexes("open"))

LastOpen == CHOOSE i \in OpIndexes("open") : \A j \in OpIndexes("open") : j <= i

ReadsSinceOpen == Cardinality({i \in OpIndexes("read") : i > LastOpen})

MultiPart == Len(ranges) >= 2

\* the ranges send_file is called with, in the order of the calls
SendFileRanges ==
    IF Len(ranges) >= 1 THEN ranges ELSE <<<<0, disk.size - 1>>>>

\* number of events a part of a multipart body takes: sub-header, one per
\* window, separator
RECURSIVE PartEvents(_)
PartEvents(j) ==
    IF j = 0 THEN 0
    ELSE PartEvents(j - 1) + Len(parse_chunks(ranges[j][1], ranges[j][2])) + 2

\* number of events sent before the j-th send_file call opens the resource
EventsBeforeOpen(j) ==
    IF MultiPart THEN 2 + PartEvents(j - 1) + 1 ELSE 1

\* open, then seek directly after it, then only reads, then close
IoInOrder ==
    \A i \in 1..Len(io) :
        /\ io[i].op = "open" => (i = 1 \/ io[i - 1].op \in {"close"})
        /\ io[i].op = "seek" => (i > 1 /\ io[i - 1].op = "open")
        /\ io[i].op = "read" => (i > 1 /\ io[i - 1].op \in {"seek", "read"})
        /\ io[i].op = "close" => (i > 1 /\ io[i - 1].op \in {"seek", "read"})

\* C18: within one range the backend I/O is open, exactly one seek to start,
\* then strictly alternating read and send of that chunk; in a multi-range
\* response each range, in header order, starts its open + seek + reads only
\* after the previous range's trailing separator has been sent.
C18_SequentialBackendIO ==
    /\ IoInOrder
    /\ f.open =>
         LET j == NumOpens
             r == SendFileRanges[j]
             before == EventsBeforeOpen(j)
             sent == Len(events) - before
         IN  /\ j <= Len(SendFileRanges)
             /\ (Len(io) > LastOpen => io[LastOpen + 1] = [op |-> "seek", arg |-> r[1]])
             /\ sent <= ReadsSinceOpen
             /\ ReadsSinceOpen <= sent + 1
             /\ \A i \in (before + 1)..Len(events) : IsBody(events[i]) /\ MoreBody(events[i])
             /\ MultiPart =>
                  /\ events[before] = BodyEvent(create_sub_header(r[1], r[2]), TRUE)
                  /\ events[before - 1] =
                         IF j = 1 THEN BodyEvent(StartBody(boundary), TRUE)
                         ELSE BodyEvent(<<"\n">> \o BoundaryLine(boundary), TRUE)

\* the second range of a multipart response has had two reads and one send
C18_Witness ==
    /\ f.open
    /\ MultiPart
    /\ NumOpens = 2
    /\ ReadsSinceOpen = 2
    /\ Len(events) - EventsBeforeOpen(2) = 1
    /\ pc = "sf_send"

-----------------------------------------------------------------------------
(* Failures: metadata fetch, backend I/O, transport, background task *)

FileNotFoundError ==
    [kind |-> "FileNotFoundError", status_code |-> 0, detail |-> <<>>, headers |-> None]

IsADirectoryError ==
    [kind |-> "IsADirectoryError", status_code |-> 0, detail |-> <<>>, headers |-> None]

\* raised by the backend's open, seek or read
BackendError ==
    [kind |-> "OSError", status_code |-> 0, detail |-> <<>>, headers |-> None]

\* raised by the transport's send
SendError ==
    [kind |-> "SendError", status_code |-> 0, detail |-> <<>>, headers |-> None]

\* raised by the background task
BackgroundError ==
    [kind |-> "BackgroundError", status_code |-> 0, detail |-> <<>>, headers |-> None]

\* FileRangeResponse.setup: os.stat fails, or the path is a directory
SetupFails ==
    /\ pc = "setup"
    /\ disk.kind # "file"
    /\ IF disk.kind = "dir"
       THEN /\ stat_result' = [st_size |-> disk.size, st_mtime |-> disk.mtime]
            /\ exc' = IsADirectoryError
       ELSE /\ exc' = FileNotFoundError
            /\ UNCHANGED stat_result
    /\ pc' = "unwind"
    /\ UNCHANGED <<background, sf_out, scope, disk, chunk_size, headers, send_header_only,
                   ranges, boundary, events, f, chunks, buf, io, sf_args, idx, ret>>

\* positions whose next step is a send
SendPcs ==
    {"except", "except_body", "handle_all", "final_body", "handle_single_range",
     "handle_multiple_range", "multi_start_body", "multi_sub_header",
     "multi_separator", "sf_send"}

\* self.headers as the handler at pc has set them when it calls send
HeadersAtSend(b) ==
    CASE pc = "handle_all" ->
           HeaderSet(HeaderSet(HeaderSet(headers,
               "content-range", ContentRange(0, file_size - 1, file_size)),
               "content-type", media_type),
               "content-length", IntToStr(file_size))
      [] pc = "handle_single_range" ->
           HeaderSet(HeaderSet(HeaderSet(headers,
               "content-range", ContentRange(ranges[1][1], ranges[1][2], file_size)),
               "content-type", media_type),
               "content-length", IntToStr(ranges[1][2] + 1 - ranges[1][1]))
      [] pc = "handle_multiple_range" ->
           HeaderSet(HeaderSet(headers,
               "content-length", IntToStr(parse_multiple_header(ranges, b))),
               "content-type",
               <<"m","u","l","t","i","p","a","r","t","/","b","y","t","e","r","a","n","g","e","s",";"," ","b","o","u","n","d","a","r","y","=">> \o b)
      [] OTHER -> headers

\* the send the handler is about to do raises: nothing is delivered; inside
\* send_file the exception first leaves the "async with" block
SendRaises ==
    /\ pc \in SendPcs
    /\ exc' = SendError
    /\ IF pc = "handle_multiple_range"
       THEN \E b \in Boundaries : boundary' = b /\ headers' = HeadersAtSend(b)
       ELSE headers' = HeadersAtSend(boundary) /\ UNCHANGED boundary
    /\ pc' = IF pc = "sf_send" THEN "sf_close" ELSE "unwind"
    /\ UNCHANGED <<background, sf_out, scope, disk, chunk_size, stat_result, send_header_only,
                   ranges, events, f, chunks, buf, io, sf_args, idx, ret>>

\* aiofiles.open, f.seek or f.read raises; a handle that was opened is closed
\* on the way out
BackendRaises ==
    /\ pc \in {"sf_open", "sf_seek", "sf_read"}
    /\ exc' = BackendError
    /\ pc' = IF pc = "sf_open" THEN "unwind" ELSE "sf_close"
    /\ UNCHANGED <<background, sf_out, scope, disk, chunk_size, stat_result, headers,
                   send_header_only, ranges, boundary, events, f, chunks, buf, io,
                   sf_args, idx, ret>>

\* __call__ lines 306-307: await self.background()
Background ==
    /\ pc = "returned"
    /\ background # None
    /\ io' = Append(io, [op |-> "background", arg |-> Len(events)])
    /\ IF background = "raises"
       THEN exc' = BackgroundError /\ pc' = "unwind"
       ELSE UNCHANGED exc /\ pc' = "after_background"
    /\ UNCHANGED <<background, sf_out, scope, disk, chunk_size, stat_result, headers,
                   send_header_only, ranges, boundary, events, f, chunks, buf,
                   sf_args, idx, ret>>

FaultHeaderLists ==
    { <<HostHeader>>,
      <<<<"range", <<"b","y","t","e","s","=","0","-","2">>>>>>,
      <<<<"range", <<"b","y","t","e","s","=","0","-","0",",","2","-">>>>>>,
      <<<<"range", <<"b","y","t","e","s","=","9","-">>>>>>,
      <<<<"range", <<"b","y","t","e","s","=","x">>>>>>,
      <<<<"range", <<"b","y","t","e","s","=","-","2">>>>>> }

InitFaults ==
    /\ disk \in [size : 0..MaxSize, mtime : {3}, kind : {"file", "dir", "missing"}]
    /\ chunk_size \in 1..MaxChunk
    /\ background \in {None, "returns", "raises"}
    /\ \E m \in Methods, hs \in FaultHeaderLists :
           scope = [method |-> m, headers |-> hs]
    /\ stat_result = None
    /\ headers = InitHeaders
    /\ pc = "setup"
    /\ send_header_only = FALSE
    /\ ranges = <<>>
    /\ exc = NoException
    /\ boundary = <<>>
    /\ events = <<>>
    /\ f = NoFile
    /\ chunks = <<>>
    /\ buf = <<>>
    /\ io = <<>>
    /\ sf_args = <<0, 0>>
    /\ sf_out = <<>>
    /\ idx = 0
    /\ ret = "none"

NextFaults ==
    \/ Next
    \/ SetupFails
    \/ SendRaises
    \/ BackendRaises
    \/ Background

SpecFaults == InitFaults /\ [][NextFaults]_vars

NumOps(op) == Cardinality(OpIndexes(op))

\* C15: on every exit path (response sent, 400/416, metadata failure, a read
\* or a send raising mid-stream, the background task raising) done() runs
\* exactly once and after all sends, and every file handle send_file opened is
\* closed exactly once.
C15_ReleasedExactlyOnce ==
    /\ NumOps("done") = (IF Over THEN 1 ELSE 0)
    /\ Over => /\ io[Len(io)].op = "done"
               /\ io[Len(io)].arg = Len(events)
               /\ ~f.open
               /\ NumOps("close") = NumOps("open")
    /\ NumOps("open") = NumOps("close") + (IF f.open THEN 1 ELSE 0)

\* a send raised inside send_file, after part of a multipart body went out
C15_Witness ==
    /\ pc = "raised"
    /\ exc.kind = "SendError"
    /\ NumOps("open") = 2
    /\ NumOps("close") = 2
    /\ NumOps("done") = 1
    /\ Len(events) >= 4

-----------------------------------------------------------------------------
(* Termination *)

FinalBodyIndexes == {i \in 1..Len(events) : IsBody(events[i]) /\ ~MoreBody(events[i])}

\* the handler returned, and of the events it sent the last one, and only that
\* one, is a body event without more_body
Completed ==
    /\ Finished
    /\ Len(events) > 0
    /\ FinalBodyIndexes = {Len(events)}

\* C21: when the metadata fetch succeeds and no read or send fails, every
\* request, whatever its Range and If-Range headers, ends completed: once
\* __call__ is over the handler has returned, and the last event sent, and no
\* earlier one, is a body event without more_body.
C21_EndsCompleted == Over => Completed

====
